---- MODULE Spec2Model ----
(***************************************************************************)
(* A model of the member-registry and reflection machinery of gl_raii /    *)
(* gullery: the GLSL basic-tag functions and prim_tag, the attachment and  *)
(* vertex traversals (counting, colour-index compaction), reference        *)
(* transparency of attachments, attachment registration, the handle        *)
(* containers, vertex-attribute registration and the vertex array objects  *)
(* with their bind cache.                                                  *)
(*                                                                         *)
(* Each part of the program has its own specification over the same        *)
(* variables (SpecTags, SpecPrimTag, SpecMembers, SpecRef, SpecRegistry,   *)
(* SpecAhc, SpecVab, SpecVao, SpecNoindex); a specification leaves the     *)
(* variables of the other parts at their idle values.                      *)
(***************************************************************************)
EXTENDS Integers, Sequences, FiniteSets

VARIABLES
    \* GLSLBasicTag functions (src/src/types_impl.rs)
    tag,            \* self
    width,          \* the u8 argument len / width
    height,         \* the u8 argument height
    op,             \* which function was applied: "none" before the call
    result,         \* Option<GLSLBasicTag> returned by vectorize / matricize
    lenResult,      \* usize returned by len(); -1 before the call
    \* Attachments / Vertex traversals (attachments.rs, vertex/mod.rs)
    aggKind,        \* "attachments" or "vertex": which trait the aggregate implements
    agg,            \* the aggregate type: its declared fields, in declaration order
    visitor,        \* the registry handed to members(): "none" while no traversal runs
    phase,          \* "idle", "running" (inside members()) or "returned"
    pos,            \* number of fields members() has registered so far
    num,            \* MemberCounter's counter (the local num of num_members)
    color_index,    \* AttachmentRefMatcher.color_index
    forEachCalls,   \* the calls made to color_attachments' for_each callback
    narrowCalls,    \* the calls received by the AttachmentsMemberRegistry
    ret,            \* num_members()'s return value; -1 before it returns
    instance,       \* the aggregate value at hand: "none", "zeroed" or "valid"
    accessed,       \* the field accessors invoked so far during the traversal
    \* AttachmentType::resolve_reference (attachments.rs)
    heap,           \* memory: address -> the value stored there
    base,           \* address of the attachment value a (a Renderbuffer or Texture)
    top,            \* address of the outermost value: a, &mut a, &mut &mut a, ...
    wraps,          \* number of mutable references wrapped around a
    resolved,       \* resolve_reference() of the outermost value; 0 before the call
    resolvedInner,  \* resolve_reference() of a itself; 0 before the call
    \* VertexAttribBuilder (src/src/buffers/vao.rs)
    overflow_checks,\* the build: TRUE panics on integer overflow, FALSE wraps
    sizeV,          \* mem::size_of::<V>()
    nFields,        \* number of add_vertex_attrib calls V::register_attribs makes
    max_attribs,    \* VertexAttribBuilder.max_attribs
    attrib_index,   \* VertexAttribBuilder.attrib_index
    fieldNo,        \* number of add_vertex_attrib calls entered so far
    frame,          \* the add_vertex_attrib call in progress: its inputs and outcome
    glCalls,        \* the driver calls issued so far
    status,         \* "registering", "completed" or "aborted" (panicked)
    panic,          \* the panic that aborted the program
    \* AttachmentType::add_to_registry on AMRNSImpl (attachments.rs)
    regInputs,      \* the add_to_registry calls made so far: field type, name, mip
    narrowLog,      \* the calls AMRNSImpl received as the narrow registry
    wideLog,        \* the add_member calls the wrapped wide visitor received
    \* AttachmentHandleContainer (attachments.rs)
    ahcKind,        \* the element type: "OptionHandle" (gullery) or "GLuint" (gl_raii)
    ahcLen,         \* the array length $len of the container type
    ahcOp,          \* the last operation: "none" before new_zeroed()
    ahc,            \* the container: the array's elements, in order
    ahcSlice,       \* the elements read back through as_ref()
    ahcBefore,      \* the container before the last write through as_mut()
    ahcWritten,     \* the slot last written through as_mut(); -1 if none
    ahcWrites,      \* number of writes made through as_mut()
    \* VertexArrayObj and VertexArrayObjTarget (src/src/buffers/vao.rs)
    bound_vao,      \* VertexArrayObjTarget.bound_vao, the cached handle
    driver_bound,   \* the vertex array bound in the driver; 0 is none
    vaos,           \* the handles of the live VertexArrayObj values
    lastOp,         \* the last operation on a vertex array
    prevOp,         \* the operation before the last
    vaoStatus,      \* "running", or "aborted" once an operation panicked
    \* a call of VertexArrayObj::new_noindex followed through register_attribs
    constructor,    \* the constructor called: "none" or "new_noindex"
    vertex_buffer,  \* the vertices held by the vertex buffer passed to it
    \* a call of <T as GLSLTypeTransparent>::prim_tag() (types_impl.rs)
    glslType,       \* T: a scalar, a vector or point over a scalar, or a matrix
    primTag         \* what the call yields: "none" before it, a tag, or "panic"

tagVars == <<tag, width, height, op, result, lenResult>>

memVars == <<aggKind, agg, visitor, phase, pos, num, color_index, forEachCalls,
             narrowCalls, ret, instance, accessed>>

refVars == <<heap, base, top, wraps, resolved, resolvedInner>>

vabVars == <<overflow_checks, sizeV, nFields, max_attribs, attrib_index, fieldNo,
             frame, glCalls, status, panic>>

regVars == <<regInputs, narrowLog, wideLog>>

ahcVars == <<ahcKind, ahcLen, ahcOp, ahc, ahcSlice, ahcBefore, ahcWritten, ahcWrites>>

vaoVars == <<bound_vao, driver_bound, vaos, lastOp, prevOp, vaoStatus>>

newVars == <<constructor, vertex_buffer>>

primVars == <<glslType, primTag>>

vars == <<tagVars, memVars, refVars, vabVars, regVars, ahcVars, vaoVars, newVars,
          primVars>>

\* what the actions of each part leave alone: the variables of the other parts
tagFrame == <<memVars, refVars, vabVars, regVars, ahcVars, vaoVars, newVars,
             primVars>>
memFrame == <<tagVars, refVars, vabVars, regVars, ahcVars, vaoVars, newVars,
             primVars>>
refFrame == <<tagVars, memVars, vabVars, regVars, ahcVars, vaoVars, newVars,
             primVars>>
vabFrame == <<tagVars, memVars, refVars, regVars, ahcVars, vaoVars, newVars,
             primVars>>
regFrame == <<tagVars, memVars, refVars, vabVars, ahcVars, vaoVars, newVars,
             primVars>>
ahcFrame == <<tagVars, memVars, refVars, vabVars, regVars, vaoVars, newVars,
             primVars>>
vaoFrame == <<tagVars, memVars, refVars, vabVars, regVars, ahcVars, newVars,
             primVars>>
newFrame == <<tagVars, memVars, refVars, regVars, ahcVars, primVars>>
primFrame == <<tagVars, memVars, refVars, vabVars, regVars, ahcVars, vaoVars, newVars>>

(***************************************************************************)
(* Option<T>                                                               *)
(***************************************************************************)
None == <<>>
Some(x) == <<x>>

(***************************************************************************)
(* GLSLBasicTag                                                            *)
(***************************************************************************)
\* u8::MAX, the range of the len / width / height arguments
U8Max == 255

GLSLBasicTag ==
    { "Int", "Float", "UInt", "Bool",
      "Vec2", "IVec2", "UVec2", "BVec2",
      "Vec3", "IVec3", "UVec3", "BVec3",
      "Vec4", "IVec4", "UVec4", "BVec4",
      "Mat2", "Mat3", "Mat4" }

\* len that gives a matrix its dimension instead of its element count
len_MatDim(self) ==
    CASE self \in {"Int", "Float", "UInt", "Bool"} -> 1
      [] self \in {"Vec2", "IVec2", "UVec2", "BVec2", "Mat2"} -> 2
      [] self \in {"Vec3", "IVec3", "UVec3", "BVec3", "Mat3"} -> 3
      [] self \in {"Vec4", "IVec4", "UVec4", "BVec4", "Mat4"} -> 4

len(self) ==
    CASE self \in {"Int", "Float", "UInt", "Bool"} -> 1
      [] self \in {"Vec2", "IVec2", "UVec2", "BVec2"} -> 2
      [] self \in {"Vec3", "IVec3", "UVec3", "BVec3"} -> 3
      [] self \in {"Vec4", "IVec4", "UVec4", "BVec4"} -> 4
      [] self = "Mat2" -> 4
      [] self = "Mat3" -> 9
      [] self = "Mat4" -> 16

\* vectorize with the (Bool, 4) arm left out and len 0 treated like len 1
vectorize_DropArm(self, n) ==
    CASE self = "Int"   /\ n \in {0, 1} -> Some("Int")
      [] self = "Int"   /\ n = 2 -> Some("IVec2")
      [] self = "Int"   /\ n = 3 -> Some("IVec3")
      [] self = "Int"   /\ n = 4 -> Some("IVec4")
      [] self = "Float" /\ n = 1 -> Some("Float")
      [] self = "Float" /\ n = 2 -> Some("Vec2")
      [] self = "Float" /\ n = 3 -> Some("Vec3")
      [] self = "Float" /\ n = 4 -> Some("Vec4")
      [] self = "UInt"  /\ n = 1 -> Some("UInt")
      [] self = "UInt"  /\ n = 2 -> Some("UVec2")
      [] self = "UInt"  /\ n = 3 -> Some("UVec3")
      [] self = "UInt"  /\ n = 4 -> Some("UVec4")
      [] self = "Bool"  /\ n = 1 -> Some("Bool")
      [] self = "Bool"  /\ n = 2 -> Some("BVec2")
      [] self = "Bool"  /\ n = 3 -> Some("BVec3")
      [] OTHER -> None

\* vectorize with a copy-paste slip: (UInt, 3) yields the signed IVec3
vectorize_WrongFamily(self, n) ==
    CASE self = "Int"   /\ n = 1 -> Some("Int")
      [] self = "Int"   /\ n = 2 -> Some("IVec2")
      [] self = "Int"   /\ n = 3 -> Some("IVec3")
      [] self = "Int"   /\ n = 4 -> Some("IVec4")
      [] self = "Float" /\ n = 1 -> Some("Float")
      [] self = "Float" /\ n = 2 -> Some("Vec2")
      [] self = "Float" /\ n = 3 -> Some("Vec3")
      [] self = "Float" /\ n = 4 -> Some("Vec4")
      [] self = "UInt"  /\ n = 1 -> Some("UInt")
      [] self = "UInt"  /\ n = 2 -> Some("UVec2")
      [] self = "UInt"  /\ n = 3 -> Some("IVec3")
      [] self = "UInt"  /\ n = 4 -> Some("UVec4")
      [] self = "Bool"  /\ n = 1 -> Some("Bool")
      [] self = "Bool"  /\ n = 2 -> Some("BVec2")
      [] self = "Bool"  /\ n = 3 -> Some("BVec3")
      [] self = "Bool"  /\ n = 4 -> Some("BVec4")
      [] OTHER -> None

vectorize(self, n) ==
    CASE self = "Int"   /\ n = 1 -> Some("Int")
      [] self = "Int"   /\ n = 2 -> Some("IVec2")
      [] self = "Int"   /\ n = 3 -> Some("IVec3")
      [] self = "Int"   /\ n = 4 -> Some("IVec4")
      [] self = "Float" /\ n = 1 -> Some("Float")
      [] self = "Float" /\ n = 2 -> Some("Vec2")
      [] self = "Float" /\ n = 3 -> Some("Vec3")
      [] self = "Float" /\ n = 4 -> Some("Vec4")
      [] self = "UInt"  /\ n = 1 -> Some("UInt")
      [] self = "UInt"  /\ n = 2 -> Some("UVec2")
      [] self = "UInt"  /\ n = 3 -> Some("UVec3")
      [] self = "UInt"  /\ n = 4 -> Some("UVec4")
      [] self = "Bool"  /\ n = 1 -> Some("Bool")
      [] self = "Bool"  /\ n = 2 -> Some("BVec2")
      [] self = "Bool"  /\ n = 3 -> Some("BVec3")
      [] self = "Bool"  /\ n = 4 -> Some("BVec4")
      [] OTHER -> None

\* matricize that matches on the width alone, so (Float, 2, 3) yields Mat2
matricize_WidthOnly(self, w, h) ==
    CASE self = "Float" /\ w = 2 -> Some("Mat2")
      [] self = "Float" /\ w = 3 -> Some("Mat3")
      [] self = "Float" /\ w = 4 -> Some("Mat4")
      [] OTHER -> None

matricize(self, w, h) ==
    CASE self = "Float" /\ w = 2 /\ h = 2 -> Some("Mat2")
      [] self = "Float" /\ w = 3 /\ h = 3 -> Some("Mat3")
      [] self = "Float" /\ w = 4 /\ h = 4 -> Some("Mat4")
      [] OTHER -> None

TagInit ==
    /\ tag \in GLSLBasicTag
    /\ width \in 0..U8Max
    /\ height \in 0..U8Max
    /\ op = "none"
    /\ result = None
    /\ lenResult = -1

TagIdle ==
    /\ tag = "Int"
    /\ width = 0
    /\ height = 0
    /\ op = "none"
    /\ result = None
    /\ lenResult = -1

\* tag.vectorize(width)
Vectorize ==
    /\ op = "none"
    /\ op' = "vectorize"
    /\ result' = vectorize(tag, width)
    /\ UNCHANGED <<tag, width, height, lenResult>>
    /\ UNCHANGED tagFrame

\* tag.matricize(width, height)
Matricize ==
    /\ op = "none"
    /\ op' = "matricize"
    /\ result' = matricize(tag, width, height)
    /\ UNCHANGED <<tag, width, height, lenResult>>
    /\ UNCHANGED tagFrame

\* tag.len()
TagLen ==
    /\ op = "none"
    /\ op' = "len"
    /\ lenResult' = len(tag)
    /\ UNCHANGED <<tag, width, height, result>>
    /\ UNCHANGED tagFrame

(***************************************************************************)
(* GLSLTypeTransparent::prim_tag of the implemented types                  *)
(***************************************************************************)
\* the types impl_gl_scalar_nonorm! implements GLScalar for
GLScalars == {"bool", "u8", "u16", "u32", "i8", "i16", "i32", "f32"}

\* prim_tag of a scalar type: the $prim_tag of its impl_gl_scalar_nonorm! line
Scalar_prim_tag(P) ==
    CASE P = "bool" -> "Bool"
      [] P \in {"u8", "u16", "u32"} -> "UInt"
      [] P \in {"i8", "i16", "i32"} -> "Int"
      [] P = "f32" -> "Float"

\* the types of the impl_glsl_vector! and impl_glsl_matrix! lists
VectorTypes == {"Vector1", "Vector2", "Vector3", "Vector4", "Point1", "Point2", "Point3"}
MatrixTypes == {"Matrix2", "Matrix3", "Matrix4"}

\* a $num that counts from zero
macro_num_ZeroBased(ctor) ==
    CASE ctor \in {"Vector1", "Point1"} -> 0
      [] ctor \in {"Vector2", "Point2", "Matrix2"} -> 1
      [] ctor \in {"Vector3", "Point3", "Matrix3"} -> 2
      [] ctor \in {"Vector4", "Matrix4"} -> 3

\* the $num of a line `impl $vector $num;` or `impl $matrix $num;`
macro_num(ctor) ==
    CASE ctor \in {"Vector1", "Point1"} -> 1
      [] ctor \in {"Vector2", "Point2", "Matrix2"} -> 2
      [] ctor \in {"Vector3", "Point3", "Matrix3"} -> 3
      [] ctor \in {"Vector4", "Matrix4"} -> 4

\* the types prim_tag is implemented for: the scalars, $vector<P> for every
\* P: GLScalar, and $matrix<f32>
GLSLTypes ==
    [kind : {"scalar"}, ctor : {"Scalar"}, scalar : GLScalars]
        \cup [kind : {"vector"}, ctor : VectorTypes, scalar : GLScalars]
        \cup [kind : {"matrix"}, ctor : MatrixTypes, scalar : {"f32"}]

\* Option::unwrap: the value, or a panic for None
unwrap(option) == IF option = None THEN "panic" ELSE option[1]

\* <T as GLSLTypeTransparent>::prim_tag()
prim_tag(T) ==
    CASE T.kind = "scalar" -> Scalar_prim_tag(T.scalar)
      [] T.kind = "vector" ->
            unwrap(vectorize(Scalar_prim_tag(T.scalar), macro_num(T.ctor)))
      [] T.kind = "matrix" ->
            unwrap(matricize(Scalar_prim_tag(T.scalar), macro_num(T.ctor), macro_num(T.ctor)))

PrimInit ==
    /\ glslType \in GLSLTypes
    /\ primTag = "none"

PrimIdle ==
    /\ glslType = [kind |-> "scalar", ctor |-> "Scalar", scalar |-> "f32"]
    /\ primTag = "none"

\* T::prim_tag()
PrimTag ==
    /\ primTag = "none"
    /\ primTag' = prim_tag(glslType)
    /\ UNCHANGED glslType
    /\ UNCHANGED primFrame

(***************************************************************************)
(* Attachments and Vertex aggregates: members(), num_members(),            *)
(* color_attachments()                                                     *)
(***************************************************************************)
\* aggregates have at most MaxFields declared fields
MaxFields == 3

\* fields are wrapped in at most MaxRefDepth mutable references
MaxRefDepth == 1

AttachmentTargets == {"Renderbuffer", "Texture"}

\* FormatTypeTag: Color, and the kinds that are not Color
FormatTypeTags == {"Color", "Depth", "Stencil"}

\* An attachment field type: Renderbuffer<I> or Texture<D, T> behind `depth`
\* mutable references, with I::FormatType / T::Format::FormatType = format.
AttachmentTypes ==
    [target : AttachmentTargets, format : FormatTypeTags, depth : 0..MaxRefDepth]

\* Vertex field types (the TransparentType of each field)
VertexFieldTypes == {"Float", "Vec3", "Vec4"}

SeqsUpTo(S, n) == UNION {[1..k -> S] : k \in 0..n}

\* texture mip selectors name the levels 0..MaxMip
MaxMip == 1

\* <&mut A as AttachmentType>::Format = A::Format
Format(ty) == ty.format

\* the A of a field type &mut A
Referent(ty) == [ty EXCEPT !.depth = @ - 1]

\* Attachment::TARGET_TYPE of the older trait: the constant of Renderbuffer
\* and of Texture, and A::TARGET_TYPE for &mut A
RECURSIVE TARGET_TYPE(_)
TARGET_TYPE(ty) == IF ty.depth > 0 THEN TARGET_TYPE(Referent(ty)) ELSE ty.target

\* Attachment::IMAGE_TYPE of the older trait: AttachmentImageType::Color for
\* Renderbuffer and for Texture, and A::IMAGE_TYPE for &mut A
RECURSIVE IMAGE_TYPE(_)
IMAGE_TYPE(ty) == IF ty.depth > 0 THEN IMAGE_TYPE(Referent(ty)) ELSE "Color"

\* <&mut A as AttachmentType>::MipSelector = A::MipSelector: the values of the
\* type. Renderbuffer's is (), whose only value is written 0; Texture's is
\* T::MipSelector.
MipSelector(ty) == IF ty.target = "Renderbuffer" THEN {0} ELSE 0..MaxMip

\* The mip selector the generated members() passes for a field. The traversals
\* of this section all go through AMRNSImpl, which drops it; they are given
\* the first value of the type.
field_mip(ty) == 0

\* The accessor the generated members() passes for a field: |r| &r.field. An
\* accessor is the field it projects and the number of dereferences it applies
\* to the projected value.
field_accessor(name) == [field |-> name, derefs |-> 0]

\* the wrapped accessor leaving out the dereference
deref_accessor_NoDeref(get_member) == get_member

\* |r| &**get_member(r): the accessor wrapped by the impl for &mut A
deref_accessor(get_member) == [get_member EXCEPT !.derefs = @ + 1]

\* Renderbuffer<I>::add_to_registry: registry.add_renderbuffer(name, |r| get_member(r)).
\* Yields the calls made on the narrow registry; add_renderbuffer has no
\* texture_level argument.
Renderbuffer_add_to_registry(format, name, get_member, mip) ==
    <<[method |-> "add_renderbuffer", name |-> name, get_member |-> get_member,
       texture_level |-> None, format |-> format]>>

\* Texture::add_to_registry registering the base level whatever mip it is given
Texture_add_to_registry_BaseLevel(format, name, get_member, mip) ==
    <<[method |-> "add_texture", name |-> name, get_member |-> get_member,
       texture_level |-> Some(0), format |-> format]>>

\* Texture<D, T>::add_to_registry: registry.add_texture(name, |r| get_member(r), mip)
Texture_add_to_registry(format, name, get_member, mip) ==
    <<[method |-> "add_texture", name |-> name, get_member |-> get_member,
       texture_level |-> Some(mip), format |-> format]>>

\* add_to_registry with a &mut A that registers nothing
add_to_registry_RefSkipped(ty, name, get_member, mip) ==
    IF ty.depth > 0 THEN <<>>
    ELSE IF ty.target = "Renderbuffer"
         THEN Renderbuffer_add_to_registry(Format(ty), name, get_member, mip)
         ELSE Texture_add_to_registry(Format(ty), name, get_member, mip)

\* AttachmentType::add_to_registry of a field type, dispatched statically on
\* the type: the calls it makes on the narrow registry. &mut A forwards to A
\* with the accessor wrapped; Renderbuffer calls add_renderbuffer; Texture calls
\* add_texture.
RECURSIVE add_to_registry(_, _, _, _)
add_to_registry(ty, name, get_member, mip) ==
    IF ty.depth > 0
    THEN add_to_registry([ty EXCEPT !.depth = @ - 1], name,
                         deref_accessor(get_member), mip)
    ELSE IF ty.target = "Renderbuffer"
         THEN Renderbuffer_add_to_registry(Format(ty), name, get_member, mip)
         ELSE Texture_add_to_registry(Format(ty), name, get_member, mip)

\* AMRNSImpl with add_texture forgetting to delegate to the wrapped visitor
AMRNSImpl_DropTexture(call) ==
    IF call.method = "add_renderbuffer"
    THEN <<[name |-> call.name, get_member |-> call.get_member, format |-> call.format]>>
    ELSE <<>>

\* AMRNSImpl with add_texture delegating for the base level only
AMRNSImpl_BaseLevelOnly(call) ==
    IF call.method = "add_renderbuffer"
    THEN <<[name |-> call.name, get_member |-> call.get_member, format |-> call.format]>>
    ELSE IF call.texture_level = Some(0)
         THEN <<[name |-> call.name, get_member |-> call.get_member,
                 format |-> call.format]>>
         ELSE <<>>

\* AMRNSImpl: the add_member calls made on the wrapped wide visitor for one
\* narrow call: add_renderbuffer and add_texture each delegate once with the
\* name and the accessor; add_texture's third argument is `_`.
AMRNSImpl(call) ==
    IF call.method = "add_renderbuffer"
    THEN <<[name |-> call.name, get_member |-> call.get_member, format |-> call.format]>>
    ELSE <<[name |-> call.name, get_member |-> call.get_member, format |-> call.format]>>

\* AMRNSImpl applied to a sequence of narrow calls, in order
RECURSIVE AMRNSImplAll(_)
AMRNSImplAll(calls) ==
    IF calls = <<>> THEN <<>>
    ELSE AMRNSImpl(Head(calls)) \o AMRNSImplAll(Tail(calls))

\* Attachments::num_members' MemberCounter::add_member: *self.0 += 1
MemberCounter_add_member(n) == n + 1

\* a MemberCounter that looks at the member it counts
MemberCounter_get_member_calls_Probe(member) == <<member.get_member>>

\* the accessors MemberCounter::add_member invokes: its accessor parameter is
\* `_`, it invokes none
MemberCounter_get_member_calls(member) == <<>>

\* the accessors Vertex::num_members' MemberCounter::add_member invokes: its
\* get_type parameter is `_`, it invokes none
VertexMemberCounter_get_type_calls(get_type) == <<>>

\* an AttachmentRefMatcher that looks at the member it is given
AttachmentRefMatcher_get_member_calls_Probe(member) == <<member.get_member>>

\* the accessors AttachmentRefMatcher::add_member invokes: its accessor
\* parameter is `_`, it invokes none
AttachmentRefMatcher_get_member_calls(member) == <<>>

\* the accessors a visitor invokes over a sequence of add_member calls
RECURSIVE FoldCounterAccesses(_)
FoldCounterAccesses(calls) ==
    IF calls = <<>> THEN <<>>
    ELSE MemberCounter_get_member_calls(Head(calls)) \o FoldCounterAccesses(Tail(calls))

RECURSIVE FoldMatcherAccesses(_)
FoldMatcherAccesses(calls) ==
    IF calls = <<>> THEN <<>>
    ELSE AttachmentRefMatcher_get_member_calls(Head(calls))
            \o FoldMatcherAccesses(Tail(calls))

\* Vertex::num_members' MemberCounter::add_member: *self.0 += 1
VertexMemberCounter_add_member(n) == n + 1

\* AttachmentRefMatcher::add_member advancing the index on every member
AttachmentRefMatcher_add_member_AllFields(st, member) ==
    LET image_type == member.format
    IN [color_index |-> st.color_index + 1,
        for_each    |-> IF image_type = "Color"
                        THEN Append(st.for_each,
                                    [index |-> st.color_index, during |-> member.name])
                        ELSE st.for_each]

\* AttachmentRefMatcher::add_member: st = [color_index, for_each (the calls made
\* to the callback so far)]; member = the add_member call. color_index is a u8
\* and cannot overflow: an aggregate has at most 32 attachments (the lengths
\* of the AttachmentHandleContainer arrays).
AttachmentRefMatcher_add_member(st, member) ==
    LET image_type == member.format
    IN [color_index |-> IF image_type = "Color"
                        THEN st.color_index + 1
                        ELSE st.color_index,
        for_each    |-> IF image_type = "Color"
                        THEN Append(st.for_each,
                                    [index |-> st.color_index, during |-> member.name])
                        ELSE st.for_each]

\* a visitor applied to a sequence of add_member calls, in order
RECURSIVE FoldCounter(_, _)
FoldCounter(n, calls) ==
    IF calls = <<>> THEN n
    ELSE FoldCounter(MemberCounter_add_member(n), Tail(calls))

RECURSIVE FoldMatcher(_, _)
FoldMatcher(st, calls) ==
    IF calls = <<>> THEN st
    ELSE FoldMatcher(AttachmentRefMatcher_add_member(st, Head(calls)), Tail(calls))

MemInit ==
    /\ aggKind \in {"attachments", "vertex"}
    /\ agg \in IF aggKind = "attachments"
               THEN SeqsUpTo(AttachmentTypes, MaxFields)
               ELSE SeqsUpTo(VertexFieldTypes, MaxFields)
    /\ visitor = "none"
    /\ phase = "idle"
    /\ pos = 0
    /\ num = 0
    /\ color_index = 0
    /\ forEachCalls = <<>>
    /\ narrowCalls = <<>>
    /\ ret = -1
    /\ instance \in {"none", "zeroed", "valid"}
    /\ accessed = <<>>

MemIdle ==
    /\ aggKind = "attachments"
    /\ agg = <<>>
    /\ visitor = "none"
    /\ phase = "idle"
    /\ pos = 0
    /\ num = 0
    /\ color_index = 0
    /\ forEachCalls = <<>>
    /\ narrowCalls = <<>>
    /\ ret = -1
    /\ instance = "none"
    /\ accessed = <<>>

\* Attachments::num_members, up to its call of Self::members
NumMembers ==
    /\ phase # "running"
    /\ aggKind = "attachments"
    /\ visitor' = "AMRNSImpl(MemberCounter)"
    /\ phase' = "running"
    /\ pos' = 0
    /\ num' = 0
    /\ color_index' = 0
    /\ forEachCalls' = <<>>
    /\ narrowCalls' = <<>>
    /\ ret' = -1
    /\ accessed' = <<>>
    /\ UNCHANGED <<aggKind, agg, instance>>
    /\ UNCHANGED memFrame

\* Vertex::num_members, up to its call of Self::members
VertexNumMembers ==
    /\ phase # "running"
    /\ aggKind = "vertex"
    /\ visitor' = "MemberCounter"
    /\ phase' = "running"
    /\ pos' = 0
    /\ num' = 0
    /\ color_index' = 0
    /\ forEachCalls' = <<>>
    /\ narrowCalls' = <<>>
    /\ ret' = -1
    /\ accessed' = <<>>
    /\ UNCHANGED <<aggKind, agg, instance>>
    /\ UNCHANGED memFrame

\* Attachments::color_attachments(&self, ..), up to its call of Self::members
ColorAttachments ==
    /\ phase # "running"
    /\ instance # "none"
    /\ aggKind = "attachments"
    /\ visitor' = "AMRNSImpl(AttachmentRefMatcher)"
    /\ phase' = "running"
    /\ pos' = 0
    /\ num' = 0
    /\ color_index' = 0
    /\ forEachCalls' = <<>>
    /\ narrowCalls' = <<>>
    /\ ret' = -1
    /\ accessed' = <<>>
    /\ UNCHANGED <<aggKind, agg, instance>>
    /\ UNCHANGED memFrame

\* members() of an attachment aggregate registers its next field: the field
\* type's add_to_registry calls the narrow registry, AMRNSImpl delegates to the
\* wrapped visitor's add_member.
AttachmentsMember ==
    /\ phase = "running"
    /\ aggKind = "attachments"
    /\ pos < Len(agg)
    /\ LET calls == add_to_registry(agg[pos + 1], pos + 1, field_accessor(pos + 1),
                                    field_mip(agg[pos + 1]))
           wide == AMRNSImplAll(calls)
           st   == FoldMatcher([color_index |-> color_index, for_each |-> forEachCalls],
                               wide)
       IN /\ narrowCalls' = narrowCalls \o calls
          /\ IF visitor = "AMRNSImpl(MemberCounter)"
             THEN /\ num' = FoldCounter(num, wide)
                  /\ accessed' = accessed \o FoldCounterAccesses(wide)
                  /\ UNCHANGED <<color_index, forEachCalls>>
             ELSE /\ color_index' = st.color_index
                  /\ forEachCalls' = st.for_each
                  /\ accessed' = accessed \o FoldMatcherAccesses(wide)
                  /\ UNCHANGED num
    /\ pos' = pos + 1
    /\ UNCHANGED <<aggKind, agg, visitor, phase, ret, instance>>
    /\ UNCHANGED memFrame

\* members() of a vertex aggregate registers its next field with
\* VertexMemberRegistry::add_member
VertexMember ==
    /\ phase = "running"
    /\ aggKind = "vertex"
    /\ pos < Len(agg)
    /\ num' = VertexMemberCounter_add_member(num)
    /\ accessed' = accessed \o VertexMemberCounter_get_type_calls(field_accessor(pos + 1))
    /\ pos' = pos + 1
    /\ UNCHANGED <<aggKind, agg, visitor, phase, ret, color_index, forEachCalls,
                   narrowCalls, instance>>
    /\ UNCHANGED memFrame

\* members() has registered every field and returns; num_members returns num
MembersReturn ==
    /\ phase = "running"
    /\ pos = Len(agg)
    /\ phase' = "returned"
    /\ ret' = IF visitor \in {"AMRNSImpl(MemberCounter)", "MemberCounter"}
              THEN num ELSE -1
    /\ UNCHANGED <<aggKind, agg, visitor, pos, num, color_index, forEachCalls,
                   narrowCalls, instance, accessed>>
    /\ UNCHANGED memFrame

(***************************************************************************)
(* AttachmentType::resolve_reference and its override for &mut A           *)
(***************************************************************************)
\* memory has the addresses 1..NumAddrs (0 is the null pointer)
NumAddrs == 5

\* at most MaxWraps mutable references are wrapped around an attachment
MaxWraps == 3

Addrs == 1..NumAddrs

\* what an address holds: nothing, an attachment (Renderbuffer / Texture), or
\* a mutable reference &mut A pointing at ptr
FreeCell == [kind |-> "free", ptr |-> 0]
AttachmentCell == [kind |-> "attachment", ptr |-> 0]
RefCell(p) == [kind |-> "ref", ptr |-> p]

\* resolve_reference without the override for &mut A: the trait's default
\* method, which returns the address of the reference itself
resolve_reference_Default(self) == self

\* resolve_reference(&self), self being the address of the value: the default
\* method returns self as *const (); the impl for &mut A calls
\* A::resolve_reference(self), self auto-dereferenced to the referent.
RECURSIVE resolve_reference(_)
resolve_reference(self) ==
    IF heap[self].kind = "ref"
    THEN resolve_reference(heap[self].ptr)
    ELSE self

RefInit ==
    /\ base \in Addrs
    /\ heap = [a \in Addrs |-> IF a = base THEN AttachmentCell ELSE FreeCell]
    /\ top = base
    /\ wraps = 0
    /\ resolved = 0
    /\ resolvedInner = 0

RefIdle ==
    /\ base = 1
    /\ heap = [a \in Addrs |-> IF a = 1 THEN AttachmentCell ELSE FreeCell]
    /\ top = 1
    /\ wraps = 0
    /\ resolved = 0
    /\ resolvedInner = 0

\* let r = &mut <outermost value>, stored at a free address
WrapInMutRef ==
    /\ wraps < MaxWraps
    /\ \E r \in Addrs :
        /\ heap[r].kind = "free"
        /\ heap' = [heap EXCEPT ![r] = RefCell(top)]
        /\ top' = r
    /\ wraps' = wraps + 1
    /\ resolved' = 0
    /\ resolvedInner' = 0
    /\ UNCHANGED base
    /\ UNCHANGED refFrame

\* resolve_reference() called on the outermost value and on a itself
ResolveReference ==
    /\ resolved = 0
    /\ resolved' = resolve_reference(top)
    /\ resolvedInner' = resolve_reference(base)
    /\ UNCHANGED <<heap, base, top, wraps>>
    /\ UNCHANGED refFrame

(***************************************************************************)
(* AttachmentType::add_to_registry called on AMRNSImpl wrapping a visitor  *)
(* that records its add_member calls                                       *)
(***************************************************************************)
\* at most MaxCalls fields are registered, named 1..MaxCalls
MaxCalls == 2

RegInit ==
    /\ regInputs = <<>>
    /\ narrowLog = <<>>
    /\ wideLog = <<>>

RegIdle ==
    /\ regInputs = <<>>
    /\ narrowLog = <<>>
    /\ wideLog = <<>>

\* <ty as AttachmentType>::add_to_registry(&mut AMRNSImpl(visitor), name,
\* |r| &r.name, mip)
AddToRegistry ==
    /\ Len(regInputs) < MaxCalls
    /\ \E ty \in AttachmentTypes, name \in 1..MaxCalls :
       \E mip \in MipSelector(ty) :
        LET calls == add_to_registry(ty, name, field_accessor(name), mip)
        IN /\ regInputs' = Append(regInputs, [ty |-> ty, name |-> name, mip |-> mip])
           /\ narrowLog' = Append(narrowLog, calls)
           /\ wideLog' = Append(wideLog, AMRNSImplAll(calls))
    /\ UNCHANGED regFrame

(***************************************************************************)
(* AttachmentHandleContainer: the arrays [Option<Handle>; $len] and        *)
(* [GLuint; $len]                                                          *)
(***************************************************************************)
\* the largest $len impl_attachment_array! is invoked with
MaxAttachments == 32

\* handles are the names 1..MaxHandle
MaxHandle == 2

\* at most MaxWrites writes are made through as_mut()
MaxWrites == 1

AhcKinds == {"OptionHandle", "GLuint"}

\* the values of the element type: Option<Handle> (Handle is non-zero) or GLuint
AhcValues(kind) ==
    IF kind = "OptionHandle"
    THEN {None} \cup {Some(h) : h \in 1..MaxHandle}
    ELSE 0..MaxHandle

\* what the array expression of new_zeroed repeats: None or 0
ZeroedElement(kind) == IF kind = "OptionHandle" THEN None ELSE 0

\* new_zeroed one slot short
new_zeroed_Short(kind, n) == [i \in 1..(n - 1) |-> ZeroedElement(kind)]

\* new_zeroed(): [None; $len] or [0; $len]
new_zeroed(kind, n) == [i \in 1..n |-> ZeroedElement(kind)]

\* as_ref(): the array viewed as a slice, its length and its element at each
\* zero-based index
as_ref(array) ==
    [len |-> Len(array), at |-> [i \in 0..(Len(array) - 1) |-> array[i + 1]]]

\* the elements of a slice, read from the first to the last
ReadSlice(slice) == [i \in 1..slice.len |-> slice.at[i - 1]]

\* as_mut()[i] = v: the array after the write through the mutable slice view
as_mut_write(array, i, v) ==
    [k \in 1..Len(array) |-> IF k = i + 1 THEN v ELSE array[k]]

AhcInit ==
    /\ ahcKind \in AhcKinds
    /\ ahcLen \in 0..MaxAttachments
    /\ ahcOp = "none"
    /\ ahc = <<>>
    /\ ahcSlice = <<>>
    /\ ahcBefore = <<>>
    /\ ahcWritten = -1
    /\ ahcWrites = 0

AhcIdle ==
    /\ ahcKind = "OptionHandle"
    /\ ahcLen = 0
    /\ ahcOp = "none"
    /\ ahc = <<>>
    /\ ahcSlice = <<>>
    /\ ahcBefore = <<>>
    /\ ahcWritten = -1
    /\ ahcWrites = 0

\* let c = <[T; $len]>::new_zeroed()
NewZeroed ==
    /\ ahcOp = "none"
    /\ ahcOp' = "new_zeroed"
    /\ ahc' = new_zeroed(ahcKind, ahcLen)
    /\ UNCHANGED <<ahcKind, ahcLen, ahcSlice, ahcBefore, ahcWritten, ahcWrites>>
    /\ UNCHANGED ahcFrame

\* c.as_ref() read from the first element to the last
AsRef ==
    /\ ahcOp \in {"new_zeroed", "as_mut"}
    /\ ahcOp' = "as_ref"
    /\ ahcSlice' = ReadSlice(as_ref(ahc))
    /\ UNCHANGED <<ahcKind, ahcLen, ahc, ahcBefore, ahcWritten, ahcWrites>>
    /\ UNCHANGED ahcFrame

\* c.as_mut()[i] = v
AsMutWrite ==
    /\ ahcOp # "none"
    /\ ahcWrites < MaxWrites
    /\ \E i \in 0..(ahcLen - 1), v \in AhcValues(ahcKind) :
        /\ ahc' = as_mut_write(ahc, i, v)
        /\ ahcWritten' = i
    /\ ahcOp' = "as_mut"
    /\ ahcBefore' = ahc
    /\ ahcSlice' = <<>>
    /\ ahcWrites' = ahcWrites + 1
    /\ UNCHANGED <<ahcKind, ahcLen>>
    /\ UNCHANGED ahcFrame

(***************************************************************************)
(* VertexAttribBuilder::add_vertex_attrib                                  *)
(***************************************************************************)
\* pointers, isize and usize are PtrBits wide
PtrBits == 3

\* sizes of V and of the field types T lie in 1..MaxSize (in units of 4 bytes)
MaxSize == 2

\* T::len() lies in 1..MaxLen
MaxLen == 2

\* the driver's MAX_VERTEX_ATTRIBS lies in 1..MaxAttribs
MaxAttribs == 2

RECURSIVE Pow2(_)
Pow2(n) == IF n = 0 THEN 1 ELSE 2 * Pow2(n - 1)

\* T::GLPrim: a primitive of 4 bytes and the 8-byte double
GLPrims == {"FLOAT", "DOUBLE"}

\* mem::size_of::<T::GLPrim>(), in units of 4 bytes
size_of_GLPrim(prim) == IF prim = "DOUBLE" THEN 2 ELSE 1

\* ptr as isize: the two's complement reading of an address
as_isize(a) == IF a >= Pow2(PtrBits - 1) THEN a - Pow2(PtrBits) ELSE a

\* isize subtraction a - b: panics on overflow when overflow checks are on,
\* wraps otherwise
isize_sub(a, b, checks) ==
    LET d == a - b
        overflow == d < -Pow2(PtrBits - 1) \/ d >= Pow2(PtrBits - 1)
    IN [panic |-> checks /\ overflow,
        value |-> IF d >= Pow2(PtrBits - 1) THEN d - Pow2(PtrBits)
                  ELSE IF d < -Pow2(PtrBits - 1) THEN d + Pow2(PtrBits)
                  ELSE d]

NoCall ==
    [name |-> 0, vertex |-> 0, attrib_ptr |-> 0, sizeT |-> 0, len |-> 0,
     prim |-> "none", outcome |-> "none"]

NoPanic == [kind |-> "none", name |-> 0, max |-> 0]

\* a panic whose message holds neither the field's name nor max_attribs
Panic(kind) == [kind |-> kind, name |-> 0, max |-> 0]

\* the bounds assertion without the size of the field
attrib_in_bounds_NoSize(attrib_offset, sizeT, size_of_V) ==
    attrib_offset <= size_of_V

\* assert!(attrib_offset + mem::size_of::<T>() <= mem::size_of::<V>()); the
\* usize sum cannot overflow: both terms are below 2^(PtrBits - 1)
attrib_in_bounds(attrib_offset, sizeT, size_of_V) ==
    attrib_offset + sizeT <= size_of_V

\* the footprint taken to be the element count
attrib_size_LenOnly(n, prim) == n

\* let attrib_size = T::len() * mem::size_of::<T::GLPrim>(); the usize product
\* cannot overflow: T::len() is at most 16 and a primitive has at most 8 bytes
attrib_size(n, prim) == n * size_of_GLPrim(prim)

\* the slot test off by one
slot_available_OffByOne(index, max) == index <= max

\* if self.attrib_index < self.max_attribs
slot_available(index, max) == index < max

Enable(self, in) ==
    [fn |-> "EnableVertexAttribArray", index |-> self.attrib_index, name |-> in.name]

\* VertexAttribPointer given the slot after the one that was enabled
Pointer_NextSlot(self, in) ==
    [fn |-> "VertexAttribPointer", index |-> self.attrib_index + 1, name |-> in.name]

Pointer(self, in) ==
    [fn |-> "VertexAttribPointer", index |-> self.attrib_index, name |-> in.name]

\* add_vertex_attrib enabling the attribute array before the size assertion
add_vertex_attrib_EnableFirst(self, in) ==
    LET sub == isize_sub(as_isize(in.attrib_ptr), as_isize(in.vertex), in.overflow_checks)
        attrib_offset == sub.value
        footprint == attrib_size(in.len, in.prim)
        enabled == Append(self.gl, Enable(self, in))
        pointed == Append(enabled, Pointer(self, in))
        Abort(p) == [outcome |-> p.kind, attrib_index |-> self.attrib_index,
                     gl |-> self.gl, panic |-> p]
    IN  IF sub.panic THEN Abort(Panic("overflow"))
        ELSE IF ~(attrib_offset >= 0) THEN Abort(Panic("assert_offset"))
        ELSE IF ~attrib_in_bounds(attrib_offset, in.sizeT, in.sizeV)
             THEN Abort(Panic("assert_in_bounds"))
        ELSE IF slot_available(self.attrib_index, self.max_attribs)
             THEN IF ~(footprint <= in.sizeT)
                  THEN [outcome |-> "assert_size", attrib_index |-> self.attrib_index,
                        gl |-> enabled, panic |-> Panic("assert_size")]
                  ELSE IF in.prim # "DOUBLE"
                  THEN IF in.gl_error
                       THEN [outcome |-> "gl_error", attrib_index |-> self.attrib_index + 1,
                             gl |-> pointed, panic |-> Panic("gl_error")]
                       ELSE [outcome |-> "ok", attrib_index |-> self.attrib_index + 1,
                             gl |-> pointed, panic |-> NoPanic]
                  ELSE [outcome |-> "double", attrib_index |-> self.attrib_index,
                        gl |-> enabled, panic |-> Panic("double")]
        ELSE Abort([kind |-> "too_many", name |-> in.name, max |-> self.max_attribs])

\* VertexAttribBuilder::add_vertex_attrib. self = [attrib_index, max_attribs,
\* gl (the driver calls so far)]; in = the call's inputs: name, the address of
\* the local vertex, the address get_type returns, size_of T and V, T::len(),
\* T::GLPrim, whether GetError reports an error, and the build's overflow
\* checks. Yields the outcome, self.attrib_index, the driver calls and the
\* panic, if any.
add_vertex_attrib(self, in) ==
    LET sub == isize_sub(as_isize(in.attrib_ptr), as_isize(in.vertex), in.overflow_checks)
        attrib_offset == sub.value
        footprint == attrib_size(in.len, in.prim)
        enabled == Append(self.gl, Enable(self, in))
        pointed == Append(enabled, Pointer(self, in))
        Abort(p) == [outcome |-> p.kind, attrib_index |-> self.attrib_index,
                     gl |-> self.gl, panic |-> p]
    IN  IF sub.panic THEN Abort(Panic("overflow"))
        ELSE IF ~(attrib_offset >= 0) THEN Abort(Panic("assert_offset"))
        ELSE IF ~attrib_in_bounds(attrib_offset, in.sizeT, in.sizeV)
             THEN Abort(Panic("assert_in_bounds"))
        ELSE IF ~(footprint <= in.sizeT) THEN Abort(Panic("assert_size"))
        ELSE IF slot_available(self.attrib_index, self.max_attribs)
             THEN IF in.prim # "DOUBLE"
                  THEN IF in.gl_error
                       THEN [outcome |-> "gl_error", attrib_index |-> self.attrib_index + 1,
                             gl |-> pointed, panic |-> Panic("gl_error")]
                       ELSE [outcome |-> "ok", attrib_index |-> self.attrib_index + 1,
                             gl |-> pointed, panic |-> NoPanic]
                  ELSE [outcome |-> "double", attrib_index |-> self.attrib_index,
                        gl |-> enabled, panic |-> Panic("double")]
        ELSE Abort([kind |-> "too_many", name |-> in.name, max |-> self.max_attribs])

\* a panic that is swallowed: registration goes on
status_after_Swallow(outcome) == "registering"

\* the traversal after a call of add_vertex_attrib: assert!, assert_eq! and
\* panic! unwind out of register_attribs and VertexArrayObj::new
status_after(outcome) == IF outcome = "ok" THEN "registering" ELSE "aborted"

\* the state after VertexAttribBuilder { attrib_index: 0, max_attribs, .. }
VabInit ==
    /\ overflow_checks \in BOOLEAN
    /\ sizeV \in 1..MaxSize
    /\ nFields \in 0..MaxFields
    /\ max_attribs \in 1..MaxAttribs
    /\ attrib_index = 0
    /\ fieldNo = 0
    /\ frame = NoCall
    /\ glCalls = <<>>
    /\ status = "registering"
    /\ panic = NoPanic

VabIdle ==
    /\ overflow_checks = FALSE
    /\ sizeV = 1
    /\ nFields = 0
    /\ max_attribs = 0
    /\ attrib_index = 0
    /\ fieldNo = 0
    /\ frame = NoCall
    /\ glCalls = <<>>
    /\ status = "completed"
    /\ panic = NoPanic

\* V::register_attribs calls add_vertex_attrib for its next field. The local
\* vertex and the T that get_type returns are objects lying in the address
\* space; the driver may or may not report an error.
AddVertexAttrib ==
    /\ status = "registering"
    /\ frame = NoCall
    /\ fieldNo < nFields
    /\ \E sizeT \in 1..MaxSize, n \in 1..MaxLen, prim \in GLPrims, gl_error \in BOOLEAN :
       \E vertex \in 1..(Pow2(PtrBits) - sizeV), attrib_ptr \in 1..(Pow2(PtrBits) - sizeT) :
        LET in == [name |-> fieldNo + 1, vertex |-> vertex, attrib_ptr |-> attrib_ptr,
                   sizeT |-> sizeT, sizeV |-> sizeV, len |-> n, prim |-> prim,
                   gl_error |-> gl_error, overflow_checks |-> overflow_checks]
            self == [attrib_index |-> attrib_index, max_attribs |-> max_attribs,
                     gl |-> glCalls]
            out == add_vertex_attrib(self, in)
        IN /\ frame' = [name |-> in.name, vertex |-> vertex, attrib_ptr |-> attrib_ptr,
                       sizeT |-> sizeT, len |-> n, prim |-> prim,
                       outcome |-> out.outcome]
           /\ attrib_index' = out.attrib_index
           /\ glCalls' = out.gl
           /\ panic' = out.panic
           /\ status' = status_after(out.outcome)
    /\ fieldNo' = fieldNo + 1
    /\ UNCHANGED <<overflow_checks, sizeV, nFields, max_attribs>>
    /\ UNCHANGED vabFrame

\* add_vertex_attrib returns to register_attribs
AddVertexAttribReturn ==
    /\ status = "registering"
    /\ frame # NoCall
    /\ frame' = NoCall
    /\ UNCHANGED <<overflow_checks, sizeV, nFields, max_attribs, attrib_index, fieldNo,
                   glCalls, status, panic>>
    /\ UNCHANGED vabFrame

\* register_attribs has registered every field and returns
RegisterAttribsReturn ==
    /\ status = "registering"
    /\ frame = NoCall
    /\ fieldNo = nFields
    /\ status' = "completed"
    /\ UNCHANGED <<overflow_checks, sizeV, nFields, max_attribs, attrib_index, fieldNo,
                   frame, glCalls, panic>>
    /\ UNCHANGED vabFrame

(***************************************************************************)
(* VertexArrayObj::new / new_noindex / drop and VertexArrayObjTarget::bind *)
(* on one context state                                                    *)
(***************************************************************************)
\* a driver call on vertex arrays
GenVertexArrays(h) == [fn |-> "GenVertexArrays", arg |-> h]
BindVertexArray(h) == [fn |-> "BindVertexArray", arg |-> h]
DeleteVertexArrays(h) == [fn |-> "DeleteVertexArrays", arg |-> h]

\* The vertex array bound in the driver after the given calls. Deleting the
\* bound vertex array reverts the binding to zero.
RECURSIVE DriverBound(_, _)
DriverBound(bound, calls) ==
    IF calls = <<>> THEN bound
    ELSE LET c == Head(calls)
         IN DriverBound(IF c.fn = "BindVertexArray" THEN c.arg
                        ELSE IF c.fn = "DeleteVertexArrays" /\ c.arg = bound THEN 0
                        ELSE bound,
                        Tail(calls))

\* bind without the cache: the driver call is issued every time
bind_Uncached(cached, handle) ==
    [bound_vao |-> handle, calls |-> <<BindVertexArray(handle)>>]

\* VertexArrayObjTarget::bind(&self, vao): the cache after the call and the
\* driver calls issued
bind(cached, handle) ==
    IF cached # handle
    THEN [bound_vao |-> handle, calls |-> <<BindVertexArray(handle)>>]
    ELSE [bound_vao |-> cached, calls |-> <<>>]

\* VertexArrayObjTarget::reset_bind: gl.BindVertexArray(0); bound_vao is not set
reset_bind(cached) == [bound_vao |-> cached, calls |-> <<BindVertexArray(0)>>]

\* a drop that resets the driver binding whatever the cache holds
drop_AlwaysResets(cached, handle) ==
    [bound_vao |-> reset_bind(cached).bound_vao,
     calls |-> <<DeleteVertexArrays(handle)>> \o reset_bind(cached).calls]

\* <VertexArrayObj as Drop>::drop
drop(cached, handle) ==
    IF cached = handle
    THEN [bound_vao |-> reset_bind(cached).bound_vao,
          calls |-> <<DeleteVertexArrays(handle)>> \o reset_bind(cached).calls]
    ELSE [bound_vao |-> cached, calls |-> <<DeleteVertexArrays(handle)>>]

\* a constructor that compares the context states only after GenVertexArrays
new_prologue_CheckAfterGen(cached, in) ==
    LET bound == bind(cached, in.handle)
        built == <<GenVertexArrays(in.handle)>> \o bound.calls
        unwound == drop(bound.bound_vao, in.handle)
    IN  IF in.ctor = "new_noindex" /\ ~in.alloc_ok
        THEN [outcome |-> "unwrap", bound_vao |-> cached, calls |-> <<>>]
        ELSE IF in.ctor = "new" /\ ~in.same_context
        THEN [outcome |-> "different_contexts", bound_vao |-> cached,
              calls |-> <<GenVertexArrays(in.handle)>>]
        ELSE IF in.init_error
        THEN [outcome |-> "init_bind_error", bound_vao |-> unwound.bound_vao,
              calls |-> built \o unwound.calls]
        ELSE [outcome |-> "registering", bound_vao |-> bound.bound_vao, calls |-> built]

\* VertexArrayObj::new and new_noindex up to V::register_attribs(vab). in =
\* the constructor called, the handle GenVertexArrays yields, whether
\* Buffer::with_size succeeds (new_noindex unwraps its result), whether both
\* buffers hold the same context state (always so in new_noindex, which
\* clones the vertex buffer's), and whether GetError reports an error in
\* init_bind. A panic after the VertexArrayObj was built drops it while
\* unwinding.
new_prologue(cached, in) ==
    LET bound == bind(cached, in.handle)
        built == <<GenVertexArrays(in.handle)>> \o bound.calls
        unwound == drop(bound.bound_vao, in.handle)
    IN  IF in.ctor = "new_noindex" /\ ~in.alloc_ok
        THEN [outcome |-> "unwrap", bound_vao |-> cached, calls |-> <<>>]
        ELSE IF in.ctor = "new" /\ ~in.same_context
        THEN [outcome |-> "different_contexts", bound_vao |-> cached, calls |-> <<>>]
        ELSE IF in.init_error
        THEN [outcome |-> "init_bind_error", bound_vao |-> unwound.bound_vao,
              calls |-> built \o unwound.calls]
        ELSE [outcome |-> "registering", bound_vao |-> bound.bound_vao, calls |-> built]

\* VertexArrayObj::new and new_noindex as a whole; in.registered: whether
\* V::register_attribs returns (it panics otherwise, and the VertexArrayObj is
\* dropped while unwinding)
VertexArrayObj_new(cached, in) ==
    LET pro == new_prologue(cached, in)
        unwound == drop(pro.bound_vao, in.handle)
    IN  IF pro.outcome # "registering" THEN pro
        ELSE IF ~in.registered
        THEN [outcome |-> "register_attribs", bound_vao |-> unwound.bound_vao,
              calls |-> pro.calls \o unwound.calls]
        ELSE [outcome |-> "ok", bound_vao |-> pro.bound_vao, calls |-> pro.calls]

\* no operation yet. An operation is recorded with its handle, the cache
\* before it, the driver calls it issued, how it ended, and whether the two
\* buffers passed to a constructor held the same context state.
NoOp == [op |-> "none", handle |-> 0, cached |-> 0, calls |-> <<>>,
         outcome |-> "none", same_context |-> TRUE]

\* the state after ContextState::new: VertexArrayObjTarget::new() sets
\* bound_vao to 0
VaoInit ==
    /\ bound_vao = 0
    /\ driver_bound = 0
    /\ vaos = {}
    /\ lastOp = NoOp
    /\ prevOp = NoOp
    /\ vaoStatus = "running"

VaoIdle ==
    /\ bound_vao = 0
    /\ driver_bound = 0
    /\ vaos = {}
    /\ lastOp = NoOp
    /\ prevOp = NoOp
    /\ vaoStatus = "running"

\* VertexArrayObj::new(vertex_buffer, index_buffer) or ::new_noindex(vertex_buffer);
\* GenVertexArrays yields a name that is not in use, possibly one deleted before
VaoNew ==
    /\ vaoStatus = "running"
    /\ \E ctor \in {"new", "new_noindex"}, h \in (1..MaxHandle) \ vaos,
          alloc_ok \in BOOLEAN, same_context \in BOOLEAN,
          init_error \in BOOLEAN, registered \in BOOLEAN :
        LET out == VertexArrayObj_new(bound_vao,
                        [ctor |-> ctor, handle |-> h, alloc_ok |-> alloc_ok,
                         same_context |-> same_context, init_error |-> init_error,
                         registered |-> registered])
        IN /\ bound_vao' = out.bound_vao
           /\ driver_bound' = DriverBound(driver_bound, out.calls)
           /\ vaos' = IF out.outcome = "ok" THEN vaos \cup {h} ELSE vaos
           /\ vaoStatus' = IF out.outcome = "ok" THEN "running" ELSE "aborted"
           /\ lastOp' = [op |-> ctor, handle |-> h, cached |-> bound_vao,
                         calls |-> out.calls, outcome |-> out.outcome,
                         same_context |-> (ctor = "new_noindex" \/ same_context)]
    /\ prevOp' = lastOp
    /\ UNCHANGED vaoFrame

\* vao_bind.bind(&vao) for a live vertex array
VaoBind ==
    /\ vaoStatus = "running"
    /\ \E h \in vaos :
        LET out == bind(bound_vao, h)
        IN /\ bound_vao' = out.bound_vao
           /\ driver_bound' = DriverBound(driver_bound, out.calls)
           /\ lastOp' = [op |-> "bind", handle |-> h, cached |-> bound_vao,
                         calls |-> out.calls, outcome |-> "ok", same_context |-> TRUE]
    /\ prevOp' = lastOp
    /\ UNCHANGED <<vaos, vaoStatus>>
    /\ UNCHANGED vaoFrame

\* a live vertex array goes out of scope
VaoDrop ==
    /\ vaoStatus = "running"
    /\ \E h \in vaos :
        LET out == drop(bound_vao, h)
        IN /\ bound_vao' = out.bound_vao
           /\ driver_bound' = DriverBound(driver_bound, out.calls)
           /\ vaos' = vaos \ {h}
           /\ lastOp' = [op |-> "drop", handle |-> h, cached |-> bound_vao,
                         calls |-> out.calls, outcome |-> "ok", same_context |-> TRUE]
    /\ prevOp' = lastOp
    /\ UNCHANGED vaoStatus
    /\ UNCHANGED vaoFrame

(***************************************************************************)
(* VertexArrayObj::new_noindex(vertex_buffer) followed field by field      *)
(***************************************************************************)
\* the vertex buffer holds at most MaxBuf vertices
MaxBuf == 2

\* the data of a vertex
VertexData == {0, 1}

\* before the call: the type V (its size and number of fields), the build and
\* the vertex buffer are given; max_attribs is the local `let mut max_attribs = 0`
NewInit ==
    /\ overflow_checks \in BOOLEAN
    /\ sizeV \in 1..MaxSize
    /\ nFields \in 0..MaxFields
    /\ max_attribs = 0
    /\ attrib_index = 0
    /\ fieldNo = 0
    /\ frame = NoCall
    /\ glCalls = <<>>
    /\ status = "new"
    /\ panic = NoPanic
    /\ constructor = "none"
    /\ vertex_buffer \in SeqsUpTo(VertexData, MaxBuf)

NewIdle ==
    /\ constructor = "none"
    /\ vertex_buffer = <<>>

\* VertexArrayObj::new_noindex(vertex_buffer) up to V::register_attribs(vab):
\* the index buffer is made with the vertex buffer's context state, the
\* vertex array is generated and bound, GetIntegerv yields MAX_VERTEX_ATTRIBS
\* and the builder starts at attrib_index 0. The steps of register_attribs
\* follow; the state at a panic is kept as it is when the panic starts.
NewNoindex ==
    /\ status = "new"
    /\ \E h \in (1..MaxHandle) \ vaos, alloc_ok \in BOOLEAN, init_error \in BOOLEAN,
          max \in 1..MaxAttribs :
        LET pro == new_prologue(bound_vao,
                        [ctor |-> "new_noindex", handle |-> h, alloc_ok |-> alloc_ok,
                         same_context |-> TRUE, init_error |-> init_error])
            entered == pro.outcome = "registering"
        IN /\ status' = IF entered THEN "registering" ELSE "aborted"
           /\ panic' = IF entered THEN NoPanic ELSE Panic(pro.outcome)
           /\ max_attribs' = IF entered THEN max ELSE 0
           /\ bound_vao' = pro.bound_vao
           /\ driver_bound' = DriverBound(driver_bound, pro.calls)
           /\ vaoStatus' = IF entered THEN "running" ELSE "aborted"
           /\ lastOp' = [op |-> "new_noindex", handle |-> h, cached |-> bound_vao,
                         calls |-> pro.calls, outcome |-> pro.outcome,
                         same_context |-> TRUE]
    /\ prevOp' = lastOp
    /\ attrib_index' = 0
    /\ constructor' = "new_noindex"
    /\ UNCHANGED <<overflow_checks, sizeV, nFields, fieldNo, frame, glCalls>>
    /\ UNCHANGED <<vaos, vertex_buffer>>
    /\ UNCHANGED newFrame

(***************************************************************************)
(* The specifications                                                      *)
(***************************************************************************)
NextTags == Vectorize \/ Matricize \/ TagLen

InitTags == TagInit /\ MemIdle /\ RefIdle /\ VabIdle /\ RegIdle /\ AhcIdle /\ VaoIdle /\ NewIdle
    /\ PrimIdle

SpecTags == InitTags /\ [][NextTags]_vars

NextMembers ==
    \/ NumMembers
    \/ VertexNumMembers
    \/ ColorAttachments
    \/ AttachmentsMember
    \/ VertexMember
    \/ MembersReturn

InitMembers == MemInit /\ TagIdle /\ RefIdle /\ VabIdle /\ RegIdle /\ AhcIdle /\ VaoIdle /\ NewIdle
    /\ PrimIdle

SpecMembers == InitMembers /\ [][NextMembers]_vars

NextRef == WrapInMutRef \/ ResolveReference

InitRef == RefInit /\ TagIdle /\ MemIdle /\ VabIdle /\ RegIdle /\ AhcIdle /\ VaoIdle /\ NewIdle
    /\ PrimIdle

SpecRef == InitRef /\ [][NextRef]_vars

NextVab == AddVertexAttrib \/ AddVertexAttribReturn \/ RegisterAttribsReturn

InitVab == VabInit /\ TagIdle /\ MemIdle /\ RefIdle /\ RegIdle /\ AhcIdle /\ VaoIdle /\ NewIdle
    /\ PrimIdle

SpecVab == InitVab /\ [][NextVab]_vars

NextRegistry == AddToRegistry

InitRegistry == RegInit /\ TagIdle /\ MemIdle /\ RefIdle /\ VabIdle /\ AhcIdle /\ VaoIdle /\ NewIdle
    /\ PrimIdle

SpecRegistry == InitRegistry /\ [][NextRegistry]_vars

NextAhc == NewZeroed \/ AsRef \/ AsMutWrite

InitAhc == AhcInit /\ TagIdle /\ MemIdle /\ RefIdle /\ VabIdle /\ RegIdle /\ VaoIdle /\ NewIdle
    /\ PrimIdle

SpecAhc == InitAhc /\ [][NextAhc]_vars

NextVao == VaoNew \/ VaoBind \/ VaoDrop

InitVao == VaoInit /\ TagIdle /\ MemIdle /\ RefIdle /\ VabIdle /\ RegIdle /\ AhcIdle /\ NewIdle
    /\ PrimIdle

SpecVao == InitVao /\ [][NextVao]_vars

NextNoindex ==
    \/ NewNoindex
    \/ AddVertexAttrib
    \/ AddVertexAttribReturn
    \/ RegisterAttribsReturn

InitNoindex ==
    NewInit /\ TagIdle /\ MemIdle /\ RefIdle /\ RegIdle /\ AhcIdle /\ VaoInit /\ PrimIdle

SpecNoindex == InitNoindex /\ [][NextNoindex]_vars

NextPrimTag == PrimTag

InitPrimTag ==
    PrimInit /\ TagIdle /\ MemIdle /\ RefIdle /\ VabIdle /\ RegIdle /\ AhcIdle /\ VaoIdle
        /\ NewIdle

SpecPrimTag == InitPrimTag /\ [][NextPrimTag]_vars

(***************************************************************************)
(* Claims about the GLSLBasicTag functions, checked under SpecTags.        *)
(***************************************************************************)
ScalarTags == {"Int", "UInt", "Float", "Bool"}

\* the vector-of-N tag of each scalar family, N in 2..4
VecTag(scalar, N) ==
    CASE scalar = "Int"   -> <<"IVec2", "IVec3", "IVec4">>[N - 1]
      [] scalar = "UInt"  -> <<"UVec2", "UVec3", "UVec4">>[N - 1]
      [] scalar = "Float" -> <<"Vec2", "Vec3", "Vec4">>[N - 1]
      [] scalar = "Bool"  -> <<"BVec2", "BVec3", "BVec4">>[N - 1]

\* the NxN matrix tag, N in 2..4
MatTag(N) == <<"Mat2", "Mat3", "Mat4">>[N - 1]

\* the tags of a scalar family: the scalar itself and its three vectors
Family(scalar) == {scalar} \cup {VecTag(scalar, N) : N \in 2..4}

\* C6: vectorize(t, n) is defined iff t is one of the scalar tags Int, UInt,
\* Float, Bool and 1 <= n <= 4; it is undefined for n = 0, for n > 4 and for
\* every vector or matrix tag.
C6_VectorizeDefinedIff ==
    op = "vectorize" =>
        ((result # None) <=> (tag \in ScalarTags /\ 1 <= width /\ width <= 4))

C6_Witness ==
    /\ op = "vectorize"
    /\ tag = "Bool"
    /\ width = 4
    /\ result = Some("BVec4")

\* C7: matricize(t, w, h) is defined iff t is Float and w = h and w is 2, 3
\* or 4; non-square pairs, the other scalars and composite tags are undefined.
C7_MatricizeDefinedIff ==
    op = "matricize" =>
        ((result # None) <=> (tag = "Float" /\ width = height /\ width \in {2, 3, 4}))

C7_Witness ==
    /\ op = "matricize"
    /\ tag = "Float"
    /\ width = 3
    /\ height = 3
    /\ result = Some("Mat3")

\* C8: a defined result is never a wrong tag: vectorize(s, n) has len() = n,
\* lies in the scalar family of s and equals s for n = 1; a defined
\* matricize(s, w, h) has len() = w * h (so matricize(Float, n, n) has n * n).
C8_NeverWrongTag ==
    /\ (op = "vectorize" /\ result # None) =>
            /\ len(result[1]) = width
            /\ result[1] \in Family(tag)
            /\ (width = 1 => result[1] = tag)
    /\ (op = "matricize" /\ result # None) =>
            len(result[1]) = width * height

C8_Witness ==
    /\ op = "vectorize"
    /\ tag = "UInt"
    /\ width = 3
    /\ result = Some("UVec3")

\* C9: len() is 1 for the scalar tags, N for every vector-of-N tag of the four
\* families (N in 2..4) and N * N for the NxN matrix tags.
C9_LenValues ==
    op = "len" =>
        /\ (tag \in ScalarTags => lenResult = 1)
        /\ \A N \in 2..4 :
            /\ (\E s \in ScalarTags : tag = VecTag(s, N)) => lenResult = N
            /\ (tag = MatTag(N) => lenResult = N * N)

C9_Witness ==
    /\ op = "len"
    /\ tag = "Mat3"
    /\ lenResult = 9

(***************************************************************************)
(* Claims about prim_tag, checked under SpecPrimTag.                       *)
(***************************************************************************)
\* C26: the unwrap in prim_tag never fails for any implemented type: for
\* every scalar type given a tag (bool, u8, u16, u32, i8, i16, i32, f32,
\* mapped to Bool/UInt/Int/Float) and every vector or point type of length
\* 1..4, vectorize(scalar tag, length) is defined; and for Matrix2, Matrix3,
\* Matrix4 over f32, matricize(Float, n, n) is defined.
C26_PrimTagUnwrapNeverFails ==
    /\ Scalar_prim_tag(glslType.scalar) \in ScalarTags
    /\ glslType.kind = "vector" =>
        /\ macro_num(glslType.ctor) \in 1..4
        /\ vectorize(Scalar_prim_tag(glslType.scalar), macro_num(glslType.ctor)) # None
    /\ glslType.kind = "matrix" =>
        /\ Scalar_prim_tag(glslType.scalar) = "Float"
        /\ matricize("Float", macro_num(glslType.ctor), macro_num(glslType.ctor)) # None
    /\ primTag # "none" =>
        /\ primTag # "panic"
        /\ primTag \in GLSLBasicTag
        /\ glslType.kind = "scalar" => primTag = Scalar_prim_tag(glslType.scalar)
        /\ glslType.kind = "vector" =>
                primTag = IF macro_num(glslType.ctor) = 1
                          THEN Scalar_prim_tag(glslType.scalar)
                          ELSE VecTag(Scalar_prim_tag(glslType.scalar),
                                      macro_num(glslType.ctor))
        /\ glslType.kind = "matrix" => primTag = MatTag(macro_num(glslType.ctor))

C26_Witness ==
    /\ glslType = [kind |-> "vector", ctor |-> "Point3", scalar |-> "u16"]
    /\ primTag = "UVec3"

(***************************************************************************)
(* Claims about the traversals, checked under SpecMembers.                 *)
(***************************************************************************)
Counters == {"AMRNSImpl(MemberCounter)", "MemberCounter"}

\* C1: num_members() of an attachment or vertex aggregate with n declared
\* fields returns exactly n (0 for the empty aggregate): the counter is
\* incremented exactly once per registry call made by members, whether the
\* call arrives through add_renderbuffer or add_texture.
C1_NumMembersCountsFields ==
    visitor \in Counters =>
        /\ num = pos
        /\ aggKind = "attachments" => num = Len(narrowCalls)
        /\ phase = "returned" => ret = Len(agg)

C1_Witness ==
    /\ phase = "returned"
    /\ visitor = "AMRNSImpl(MemberCounter)"
    /\ Len(agg) = 3
    /\ \E i, j \in 1..3 :
        /\ narrowCalls[i].method = "add_renderbuffer"
        /\ narrowCalls[j].method = "add_texture"
    /\ ret = 3

\* the positions of the colour fields among the first k declared fields
ColorFields(k) == {j \in 1..k : Format(agg[j]) = "Color"}

\* C2: color_attachments invokes the callback exactly once per colour field,
\* in declaration order, with the field's zero-based position among the
\* colour fields only; a non-colour field triggers no callback and does not
\* advance the index.
C2_ColorIndicesCompact ==
    visitor = "AMRNSImpl(AttachmentRefMatcher)" =>
        /\ Len(forEachCalls) = Cardinality(ColorFields(pos))
        /\ color_index = Cardinality(ColorFields(pos))
        /\ \A i \in 1..Len(forEachCalls) :
            LET c == forEachCalls[i]
            IN /\ c.index = i - 1
               /\ c.during \in ColorFields(pos)
               /\ c.index = Cardinality(ColorFields(c.during - 1))

C2_Witness ==
    /\ phase = "returned"
    /\ visitor = "AMRNSImpl(AttachmentRefMatcher)"
    /\ Len(agg) = 3
    /\ Format(agg[1]) = "Color"
    /\ Format(agg[2]) = "Depth"
    /\ Format(agg[3]) = "Color"
    /\ forEachCalls = <<[index |-> 0, during |-> 1], [index |-> 1, during |-> 3]>>

\* C15: counting never touches field values: during num_members() (attachment
\* and vertex aggregates) no field accessor passed to the counting visitor is
\* ever invoked, so the result is the same whether the aggregate's fields hold
\* valid values, zeroed placeholders, or no instance exists at all.
C15_CountingInvokesNoAccessor ==
    visitor \in Counters =>
        /\ accessed = <<>>
        /\ phase = "returned" => ret = Len(agg)

C15_Witness ==
    /\ visitor = "AMRNSImpl(MemberCounter)"
    /\ phase = "returned"
    /\ instance = "none"
    /\ Len(agg) = 3
    /\ Len(narrowCalls) = 3
    /\ \A i \in 1..3 : narrowCalls[i].get_member = [field |-> i, derefs |-> agg[i].depth]
    /\ accessed = <<>>
    /\ ret = 3

\* the colour indices that the field types alone determine, counted from next
RECURSIVE IndicesOfType(_, _)
IndicesOfType(types, next) ==
    IF types = <<>> THEN <<>>
    ELSE IF Format(Head(types)) = "Color"
         THEN <<next>> \o IndicesOfType(Tail(types), next + 1)
         ELSE IndicesOfType(Tail(types), next)

\* the indices passed to the callback so far, in order
CallbackIndices(calls) == [i \in 1..Len(calls) |-> calls[i].index]

\* C24: the colour indices reported by color_attachments depend only on the
\* aggregate's type, never on the instance it is called on: no field accessor
\* is invoked during the traversal, and two instances of the same aggregate
\* type with different field values produce the identical sequence of
\* callback indices (the sequence is the one the field types determine,
\* whatever the instance is).
C24_ColorIndicesTypeOnly ==
    visitor = "AMRNSImpl(AttachmentRefMatcher)" =>
        /\ accessed = <<>>
        /\ CallbackIndices(forEachCalls) = IndicesOfType(SubSeq(agg, 1, pos), 0)

C24_Witness ==
    /\ phase = "returned"
    /\ visitor = "AMRNSImpl(AttachmentRefMatcher)"
    /\ instance = "valid"
    /\ Len(agg) = 3
    /\ agg[1] = [target |-> "Texture", format |-> "Color", depth |-> 1]
    /\ Format(agg[2]) = "Stencil"
    /\ agg[3] = [target |-> "Renderbuffer", format |-> "Color", depth |-> 0]
    /\ CallbackIndices(forEachCalls) = <<0, 1>>
    /\ accessed = <<>>

\* a field type with its mutable references taken away
RECURSIVE Unwrapped(_)
Unwrapped(ty) == IF ty.depth > 0 THEN Unwrapped(Referent(ty)) ELSE ty

\* the aggregate of the referents
Referents(a) == [i \in 1..Len(a) |-> Unwrapped(a[i])]

\* the add_member calls a visitor behind AMRNSImpl receives from members() of
\* the attachment aggregate a, for its first k fields
RECURSIVE MembersOf(_, _)
MembersOf(a, k) ==
    IF k = 0 THEN <<>>
    ELSE MembersOf(a, k - 1)
            \o AMRNSImplAll(add_to_registry(a[k], k, field_accessor(k), field_mip(a[k])))

\* C25: an attachment aggregate whose fields are mutable references to
\* attachments behaves, for every traversal consumer, like the aggregate of
\* the referents: the reference forwards Format and MipSelector (and
\* TARGET_TYPE / IMAGE_TYPE in the older trait) unchanged, so num_members and
\* the sequence of indices reported by color_attachments are identical for
\* the wrapped and the unwrapped aggregate. The associated items are compared
\* for the aggregate before a traversal, the results when one has returned.
C25_MutRefAggregateLikeReferents ==
    aggKind = "attachments" =>
        /\ phase = "idle" => \A i \in 1..Len(agg) :
            /\ Format(agg[i]) = Format(Unwrapped(agg[i]))
            /\ MipSelector(agg[i]) = MipSelector(Unwrapped(agg[i]))
            /\ TARGET_TYPE(agg[i]) = TARGET_TYPE(Unwrapped(agg[i]))
            /\ IMAGE_TYPE(agg[i]) = IMAGE_TYPE(Unwrapped(agg[i]))
        /\ (phase = "returned" /\ visitor = "AMRNSImpl(MemberCounter)") =>
            ret = FoldCounter(0, MembersOf(Referents(agg), Len(agg)))
        /\ (phase = "returned" /\ visitor = "AMRNSImpl(AttachmentRefMatcher)") =>
            CallbackIndices(forEachCalls) =
                CallbackIndices(FoldMatcher([color_index |-> 0, for_each |-> <<>>],
                                            MembersOf(Referents(agg), Len(agg))).for_each)

C25_Witness ==
    /\ phase = "returned"
    /\ visitor = "AMRNSImpl(AttachmentRefMatcher)"
    /\ Len(agg) = 3
    /\ \A i \in 1..3 : agg[i].depth = 1
    /\ agg[1].target = "Renderbuffer"
    /\ agg[2].target = "Texture"
    /\ Format(agg[1]) = "Depth"
    /\ Format(agg[2]) = "Color"
    /\ Format(agg[3]) = "Color"
    /\ Referents(agg) # agg
    /\ CallbackIndices(forEachCalls) = <<0, 1>>

(***************************************************************************)
(* Claims about resolve_reference, checked under SpecRef.                  *)
(***************************************************************************)
\* C10: for every attachment a and every depth k >= 1 of mutable-reference
\* wrapping, resolve_reference on the wrapper returns the same pointer as
\* resolve_reference on a itself: the address of the innermost non-reference
\* value, never the address of an intermediate reference.
C10_ResolveReferenceTransparent ==
    (resolved # 0 /\ wraps >= 1) =>
        /\ resolved = resolvedInner
        /\ resolved = base
        /\ heap[resolved].kind = "attachment"

C10_Witness ==
    /\ wraps = 3
    /\ resolved # 0
    /\ resolved = base
    /\ top # base
    /\ heap[top].ptr # base

(***************************************************************************)
(* Claims about add_vertex_attrib, checked under SpecVab.                  *)
(***************************************************************************)
\* the true distance, in the integers, from the vertex to the field
TrueOffset(f) == f.attrib_ptr - f.vertex

\* the field returned by the accessor lies inside the vertex instance
FieldInside(f) == TrueOffset(f) >= 0 /\ TrueOffset(f) + f.sizeT <= sizeV

\* the attribute's footprint fits the field type
FootprintFits(f) == f.len * size_of_GLPrim(f.prim) <= f.sizeT

\* the outcomes of a call that got past the size assertion
PastSizeAssertion == {"too_many", "double", "gl_error", "ok"}

\* the offset subtraction overflows isize in a build that checks overflow
OffsetOverflows(f) ==
    /\ overflow_checks
    /\ LET d == as_isize(f.attrib_ptr) - as_isize(f.vertex)
       IN d < -Pow2(PtrBits - 1) \/ d >= Pow2(PtrBits - 1)

BoundsAborts == {"overflow", "assert_offset", "assert_in_bounds"}

AssertionAborts == {"assert_offset", "assert_in_bounds", "assert_size"}

\* C3: an accessor whose returned address lies outside the vertex instance
\* (below it, beyond its end, or straddling its end) is always rejected
\* fatally: registration proceeds past the bounds checks only if
\* offset = field address - vertex address satisfies offset >= 0 and
\* offset + size_of(T) <= size_of(V).
C3_OutsideFieldRejected ==
    frame # NoCall =>
        /\ frame.outcome \notin BoundsAborts => FieldInside(frame)
        /\ ~FieldInside(frame) => (status = "aborted" /\ panic.kind \in BoundsAborts)

C3_Witness ==
    /\ frame.outcome = "assert_in_bounds"
    /\ status = "aborted"
    /\ TrueOffset(frame) >= 0
    /\ TrueOffset(frame) < sizeV
    /\ TrueOffset(frame) + frame.sizeT > sizeV

\* C4: when a bounds or size assertion of add_vertex_attrib fails for a field,
\* the program aborts before any driver call for that field: the call issues
\* no EnableVertexAttribArray and no VertexAttribPointer, and attrib_index is
\* not incremented.
C4_AssertBeforeDriverCalls ==
    [][(fieldNo' = fieldNo + 1 /\ frame'.outcome \in AssertionAborts) =>
            /\ glCalls' = glCalls
            /\ attrib_index' = attrib_index
            /\ status' = "aborted"]_vars

C4_Witness ==
    /\ frame.outcome = "assert_size"
    /\ frame.name = 2
    /\ status = "aborted"
    /\ attrib_index = 1
    /\ Len(glCalls) = 2
    /\ \A i \in 1..Len(glCalls) : glCalls[i].name = 1

\* the slots for which both driver calls were issued
BoundSlots ==
    {i \in 0..MaxFields :
        /\ \E k \in 1..Len(glCalls) :
            glCalls[k].fn = "EnableVertexAttribArray" /\ glCalls[k].index = i
        /\ \E k \in 1..Len(glCalls) :
            glCalls[k].fn = "VertexAttribPointer" /\ glCalls[k].index = i}

NoFieldSkipped ==
    status = "completed" =>
        /\ attrib_index = nFields
        /\ BoundSlots = 0..(nFields - 1)
        /\ Len(glCalls) = 2 * nFields

\* C5 as claimed: registration of the first field whose slot index would equal
\* max_attribs always aborts with the message holding that field's name and
\* max_attribs; a completed traversal has bound as many slots as fields.
C5_Claimed_AlwaysTooManyMessage ==
    /\ frame.name = max_attribs + 1 =>
            /\ status = "aborted"
            /\ panic = [kind |-> "too_many", name |-> frame.name, max |-> max_attribs]
    /\ NoFieldSkipped

\* C5, amended: registration of the first field whose slot index would equal
\* max_attribs always aborts; the abort is the panic whose message holds that
\* field's name and max_attribs when the field passes the bounds and size
\* assertions (and the offset subtraction does not overflow), and the failing
\* check's panic otherwise. No field is silently skipped: a traversal that
\* completes has bound exactly as many slots as the aggregate has fields.
C5_TooManyAborts ==
    /\ frame.name = max_attribs + 1 =>
            /\ status = "aborted"
            /\ IF FieldInside(frame) /\ FootprintFits(frame) /\ ~OffsetOverflows(frame)
               THEN panic = [kind |-> "too_many", name |-> frame.name,
                             max |-> max_attribs]
               ELSE panic.kind \in BoundsAborts \cup AssertionAborts
    /\ NoFieldSkipped

C5_Witness ==
    /\ nFields = 3
    /\ max_attribs = 2
    /\ frame.name = 3
    /\ attrib_index = 2
    /\ Len(glCalls) = 4
    /\ status = "aborted"
    /\ panic = [kind |-> "too_many", name |-> 3, max |-> 2]

(***************************************************************************)
(* Claims about add_to_registry and AMRNSImpl, checked under SpecRegistry. *)
(***************************************************************************)
\* the narrow-registry method of an attachment target
VariantMethod(target) ==
    IF target = "Renderbuffer" THEN "add_renderbuffer" ELSE "add_texture"

\* the mip selector value a narrow call carries: add_renderbuffer has none
CarriedMip(ty, mip) == IF ty.target = "Renderbuffer" THEN None ELSE Some(mip)

\* C11: registering a field of type &mut A through add_to_registry produces
\* exactly the registry call that registering a field of type A produces:
\* exactly one narrow-registry call, of the same variant (add_renderbuffer for
\* a renderbuffer referent, add_texture for a texture referent), with the same
\* name and the same mip selector value, and with an accessor that yields the
\* referent rather than the reference.
C11_MutRefForwardsRegistration ==
    \A i \in 1..Len(regInputs) :
        LET in == regInputs[i]
            referent == [in.ty EXCEPT !.depth = 0]
            direct == add_to_registry(referent, in.name, field_accessor(in.name), in.mip)
        IN in.ty.depth > 0 =>
            /\ Len(narrowLog[i]) = 1
            /\ Len(direct) = 1
            /\ narrowLog[i][1].method = direct[1].method
            /\ narrowLog[i][1].method = VariantMethod(in.ty.target)
            /\ narrowLog[i][1].name = direct[1].name
            /\ narrowLog[i][1].texture_level = direct[1].texture_level
            /\ narrowLog[i][1].format = direct[1].format
            /\ narrowLog[i][1].get_member.field = in.name
            /\ narrowLog[i][1].get_member.derefs = in.ty.depth

C11_Witness ==
    /\ Len(regInputs) = 1
    /\ regInputs[1].ty.depth = 1
    /\ regInputs[1].ty.target = "Texture"
    /\ regInputs[1].mip = 1
    /\ regInputs[1].name = 2
    /\ narrowLog[1] = <<[method |-> "add_texture", name |-> 2,
                         get_member |-> [field |-> 2, derefs |-> 1],
                         texture_level |-> Some(1),
                         format |-> regInputs[1].ty.format]>>

\* C12: the field's static variant alone selects the narrow registry method:
\* add_to_registry for a Renderbuffer field makes exactly one add_renderbuffer
\* call and no add_texture call; add_to_registry for a Texture field makes
\* exactly one add_texture call and no add_renderbuffer call, passing the given
\* mip selector through unchanged; the name is passed through unchanged in
\* both cases.
C12_StaticVariantSelectsMethod ==
    \A i \in 1..Len(regInputs) :
        LET in == regInputs[i]
        IN in.ty.depth = 0 =>
            /\ Len(narrowLog[i]) = 1
            /\ narrowLog[i][1].method = VariantMethod(in.ty.target)
            /\ narrowLog[i][1].name = in.name
            /\ narrowLog[i][1].texture_level = CarriedMip(in.ty, in.mip)

C12_Witness ==
    /\ Len(regInputs) = 2
    /\ regInputs[1] = [ty |-> [target |-> "Renderbuffer", format |-> "Depth", depth |-> 0],
                       name |-> 2, mip |-> 0]
    /\ regInputs[2].ty.target = "Texture"
    /\ regInputs[2].ty.depth = 0
    /\ regInputs[2].mip = 1
    /\ regInputs[2].name = 1
    /\ narrowLog[1][1].method = "add_renderbuffer"
    /\ narrowLog[2][1].method = "add_texture"
    /\ narrowLog[2][1].texture_level = Some(1)

\* the narrow calls and the wide calls of all registrations, in arrival order
RECURSIVE Flatten(_)
Flatten(logs) == IF logs = <<>> THEN <<>> ELSE Head(logs) \o Flatten(Tail(logs))

\* C13: the generic-to-narrow adapter AMRNSImpl turns every add_renderbuffer
\* call and every add_texture call into exactly one add_member call on the
\* wrapped wide visitor, with the same name and the same accessor, in the same
\* order as the narrow calls arrived; the mip selector of add_texture is
\* discarded and influences nothing.
C13_AdapterDelegatesOncePerCall ==
    LET narrow == Flatten(narrowLog)
        wide == Flatten(wideLog)
    IN /\ Len(wide) = Len(narrow)
       /\ \A k \in 1..Len(narrow) :
            /\ k <= Len(wide)
            /\ wide[k] = [name |-> narrow[k].name, get_member |-> narrow[k].get_member,
                          format |-> narrow[k].format]
       /\ \A i, j \in 1..Len(regInputs) :
            ( /\ regInputs[i].ty = regInputs[j].ty
              /\ regInputs[i].name = regInputs[j].name ) => wideLog[i] = wideLog[j]

C13_Witness ==
    /\ Len(regInputs) = 2
    /\ regInputs[1].ty = regInputs[2].ty
    /\ regInputs[1].ty.target = "Texture"
    /\ regInputs[1].name = regInputs[2].name
    /\ regInputs[1].mip = 0
    /\ regInputs[2].mip = 1
    /\ narrowLog[1] # narrowLog[2]
    /\ Len(wideLog[2]) = 1
    /\ wideLog[1] = wideLog[2]

(***************************************************************************)
(* Claims about the handle containers, checked under SpecAhc.              *)
(***************************************************************************)
\* the empty-handle value: None in the Option<Handle> container, 0 in the
\* GLuint container
EmptyHandle == IF ahcKind = "OptionHandle" THEN None ELSE 0

\* C14: for every supported container length L in 0..32, new_zeroed() returns
\* a container of exactly L slots, every one holding the empty-handle value
\* (None in the Option<Handle> container, 0 in the GLuint container); viewing
\* the container as a slice and reading it back yields the same L values in
\* the same order, and writing slot i through the mutable view changes slot i
\* only.
C14_ZeroedContainerRoundTrip ==
    /\ ahcOp = "new_zeroed" =>
            /\ Len(ahc) = ahcLen
            /\ \A i \in 1..ahcLen : ahc[i] = EmptyHandle
    /\ ahcOp = "as_ref" =>
            /\ Len(ahcSlice) = ahcLen
            /\ \A i \in 1..ahcLen : ahcSlice[i] = ahc[i]
    /\ ahcOp = "as_mut" =>
            /\ Len(ahc) = ahcLen
            /\ Len(ahcBefore) = ahcLen
            /\ \A i \in 1..ahcLen : i # ahcWritten + 1 => ahc[i] = ahcBefore[i]

C14_Witness ==
    /\ ahcKind = "OptionHandle"
    /\ ahcLen = 32
    /\ ahcOp = "as_ref"
    /\ ahcWritten = 30
    /\ Len(ahcSlice) = 32
    /\ ahcSlice[31] = Some(2)
    /\ \A i \in 1..32 : i # 31 => ahcSlice[i] = None

(***************************************************************************)
(* Further claims about add_vertex_attrib, checked under SpecVab.          *)
(***************************************************************************)
\* C16: add_vertex_attrib aborts fatally whenever the attribute footprint
\* computed from the field's format, element count times size of the
\* primitive (T::len() * size_of(T::GLPrim)), exceeds the in-memory size of
\* the field type T; registration continues only when that footprint is
\* <= size_of(T).
C16_FootprintAsserted ==
    frame # NoCall =>
        /\ ~FootprintFits(frame) => (status = "aborted" /\ frame.outcome # "ok")
        /\ frame.outcome \in PastSizeAssertion => FootprintFits(frame)
        /\ (FieldInside(frame) /\ ~OffsetOverflows(frame) /\ ~FootprintFits(frame))
                => panic.kind = "assert_size"

C16_Witness ==
    /\ frame # NoCall
    /\ FieldInside(frame)
    /\ frame.prim = "FLOAT"
    /\ frame.len = 2
    /\ frame.sizeT = 1
    /\ status = "aborted"
    /\ panic.kind = "assert_size"

\* the two outcomes of a traversal
Terminal == status \in {"completed", "aborted"}

\* what is left of the traversal: two steps per field not yet passed to
\* add_vertex_attrib, the return of the call in progress, the final return
Measure ==
    2 * (nFields - fieldNo)
        + (IF frame # NoCall /\ ~Terminal THEN 1 ELSE 0)
        + (IF Terminal THEN 0 ELSE 1)

\* the aborts that the environment causes whatever the vertex type is: the
\* index buffer cannot be allocated, or the driver reports an error
EnvironmentAborts == {"unwrap", "init_bind_error", "gl_error"}

\* the call in frame is one that a correctly declared field makes
CorrectlyDeclared(f) == FieldInside(f) /\ FootprintFits(f) /\ f.prim # "DOUBLE"

\* C17: for a correctly declared vertex type (every accessor returns a field
\* inside the vertex, every field's footprint fits its type, no
\* double-precision primitive, field count <= max_attribs)
\* VertexArrayObj::new_noindex completes without abort and registers every
\* field, for every content of the vertex buffer including the empty buffer.
\* Stated with a driver and an allocator that report no error: when the last
\* field of such a type has been passed, and it was correctly declared as
\* the fields before it were, the call has not aborted.
C17_Claimed_CorrectTypeCompletes ==
    (/\ constructor = "new_noindex"
     /\ nFields <= max_attribs
     /\ fieldNo = nFields
     /\ frame # NoCall
     /\ CorrectlyDeclared(frame)
     /\ status = "aborted")
        => panic.kind \in EnvironmentAborts

\* C18: every vertex-attribute registration traversal over an aggregate with
\* finitely many fields eventually ends in one of exactly two outcomes: all
\* fields registered (completed) or the program aborted on a detected
\* violation; there is no state in which the traversal is stuck, re-entered,
\* or continues registering fields after a violation was detected. Stated
\* with a variant: Measure is a natural number that every step of the
\* traversal decreases, a traversal that has not ended can take a step, and
\* one that has ended takes none.
C18_TraversalTerminates ==
    /\ [](Measure >= 0)
    /\ [](~Terminal => ENABLED NextVab)
    /\ [](status = "completed" =>
            (fieldNo = nFields /\ attrib_index = nFields /\ panic = NoPanic))
    /\ [](status = "aborted" => panic # NoPanic)
    /\ []((frame # NoCall /\ frame.outcome # "ok") => status = "aborted")
    /\ [][~Terminal /\ Measure' < Measure /\ fieldNo' \in {fieldNo, fieldNo + 1}]_vars

C18_Witness ==
    /\ status = "aborted"
    /\ nFields = 3
    /\ fieldNo = 2
    /\ attrib_index = 1
    /\ frame.outcome = "assert_offset"

\* the driver calls that set an attribute pointer
PointerCalls == {k \in 1..Len(glCalls) : glCalls[k].fn = "VertexAttribPointer"}

\* the outcomes of a call that registered its field: both driver calls were
\* issued for it ("gl_error": GetError then reported an error and the program
\* aborted)
Registered == {"ok", "gl_error"}

BindIssuesIffCacheDiffers ==
    lastOp.op = "bind" =>
        /\ lastOp.calls = IF lastOp.cached # lastOp.handle
                          THEN <<BindVertexArray(lastOp.handle)>>
                          ELSE <<>>
        /\ bound_vao = lastOp.handle

\* the last two operations were binds of the same vertex array
BoundTwiceInARow ==
    /\ prevOp.op = "bind"
    /\ lastOp.op = "bind"
    /\ prevOp.handle = lastOp.handle

\* C20 as claimed: VertexArrayObjTarget::bind issues the driver call
\* BindVertexArray(h) if and only if the cached bound_vao differs from the
\* VAO's handle h, and after bind returns bound_vao = h; binding the same VAO
\* twice in a row issues exactly one driver bind call.
C20_Claimed_ExactlyOneBindCall ==
    /\ BindIssuesIffCacheDiffers
    /\ BoundTwiceInARow => Len(prevOp.calls) + Len(lastOp.calls) = 1

\* C20, amended: VertexArrayObjTarget::bind issues the driver call
\* BindVertexArray(h) if and only if the cached bound_vao differs from the
\* VAO's handle h, and after bind returns bound_vao = h. Binding the same VAO
\* twice in a row issues at most one driver bind call: the second bind issues
\* none, and the first issues one exactly when the cache did not hold h
\* before it (it holds h, for instance, right after VertexArrayObj::new, which
\* binds the new VAO).
C20_BindSkipsCachedHandle ==
    /\ BindIssuesIffCacheDiffers
    /\ BoundTwiceInARow =>
            /\ lastOp.calls = <<>>
            /\ Len(prevOp.calls) = IF prevOp.cached # prevOp.handle THEN 1 ELSE 0

C20_Witness ==
    /\ BoundTwiceInARow
    /\ prevOp.cached = 1
    /\ prevOp.handle = 2
    /\ prevOp.calls = <<BindVertexArray(2)>>
    /\ lastOp.cached = 2
    /\ lastOp.calls = <<>>
    /\ bound_vao = 2
    /\ driver_bound = 2

\* the calls of the last operation, as a set
CallsOf(o) == {o.calls[k] : k \in 1..Len(o.calls)}

\* the last operation bound a vertex array (bind itself, or the bind inside a
\* constructor that returned) and the cache made it skip the driver call
BindSkipped ==
    /\ vaoStatus = "running"
    /\ lastOp.op \in {"bind", "new", "new_noindex"}
    /\ BindVertexArray(lastOp.handle) \notin CallsOf(lastOp)

\* C21 as claimed: after any sequence of VAO creations, binds and drops on
\* one context (with the driver free to reuse a deleted handle for a later
\* GenVertexArrays), the cached bound_vao of VertexArrayObjTarget equals the
\* vertex array handle actually bound in the driver, so a bind skipped
\* because of the cache never leaves a different VAO (or none) bound in the
\* driver.
C21_Claimed_CacheEqualsDriverBinding ==
    vaoStatus = "running" =>
        /\ bound_vao = driver_bound
        /\ BindSkipped => driver_bound = lastOp.handle

\* the positions of the calls of driver function fn in the last operation
CallsTo(fn) == {k \in 1..Len(lastOp.calls) : lastOp.calls[k].fn = fn}

\* a constructor panicked after it built the VertexArrayObj, which is dropped
\* while the panic unwinds
UnwoundDrop ==
    /\ lastOp.op \in {"new", "new_noindex"}
    /\ lastOp.outcome \in {"init_bind_error", "register_attribs"}

\* C22: dropping a VertexArrayObj with handle h always deletes h in the
\* driver exactly once; it additionally issues BindVertexArray(0) if and only
\* if the cached bound_vao equals h at that moment; dropping a VAO that is
\* not the cached one issues no bind call and leaves bound_vao unchanged.
\* The same holds for the drop that happens while a constructor's panic
\* unwinds, where the cache always holds h.
C22_DropDeletesOnceResetsIfCached ==
    /\ lastOp.op = "drop" =>
        /\ Cardinality(CallsTo("DeleteVertexArrays")) = 1
        /\ lastOp.calls[1] = DeleteVertexArrays(lastOp.handle)
        /\ BindVertexArray(0) \in CallsOf(lastOp) <=> lastOp.cached = lastOp.handle
        /\ Cardinality(CallsTo("BindVertexArray")) =
                IF lastOp.cached = lastOp.handle THEN 1 ELSE 0
        /\ \A k \in CallsTo("BindVertexArray") : lastOp.calls[k].arg = 0
        /\ CallsTo("GenVertexArrays") = {}
        /\ lastOp.handle \notin vaos
        /\ lastOp.cached # lastOp.handle => bound_vao = lastOp.cached
    /\ UnwoundDrop =>
        /\ Cardinality(CallsTo("DeleteVertexArrays")) = 1
        /\ lastOp.calls[Len(lastOp.calls) - 1] = DeleteVertexArrays(lastOp.handle)
        /\ lastOp.calls[Len(lastOp.calls)] = BindVertexArray(0)
        /\ lastOp.handle \notin vaos

\* two vertex arrays were made and both dropped, first the cached one, then
\* the other
C22_Witness ==
    /\ prevOp.op = "drop"
    /\ prevOp.cached = prevOp.handle
    /\ prevOp.calls = <<DeleteVertexArrays(2), BindVertexArray(0)>>
    /\ lastOp.op = "drop"
    /\ lastOp.cached = 2
    /\ lastOp.handle = 1
    /\ lastOp.calls = <<DeleteVertexArrays(1)>>
    /\ bound_vao = 2
    /\ vaos = {}

\* C23: VertexArrayObj::new aborts fatally when the vertex buffer and the
\* index buffer belong to different context states, and it does so before
\* any driver call: no vertex array is generated, nothing is bound and no
\* attribute is registered; when both buffers share one context state the
\* check passes.
C23_DifferentContextsAbortBeforeDriver ==
    lastOp.op = "new" =>
        /\ ~lastOp.same_context =>
            /\ lastOp.outcome = "different_contexts"
            /\ vaoStatus = "aborted"
            /\ lastOp.calls = <<>>
            /\ bound_vao = lastOp.cached
            /\ lastOp.handle \notin vaos
        /\ lastOp.same_context =>
            /\ lastOp.outcome # "different_contexts"
            /\ GenVertexArrays(lastOp.handle) \in CallsOf(lastOp)

\* new is called with buffers of different contexts while another vertex
\* array is live and bound
C23_Witness ==
    /\ lastOp.op = "new"
    /\ ~lastOp.same_context
    /\ lastOp.outcome = "different_contexts"
    /\ lastOp.calls = <<>>
    /\ prevOp.op = "new"
    /\ prevOp.outcome = "ok"
    /\ vaos = {1}
    /\ bound_vao = 1
    /\ driver_bound = 1
    /\ vaoStatus = "aborted"

====
